---- MODULE Spec2Model ----
(***************************************************************************)
(* RpcHelpers of @sudobility/configs (johnqh/mail_box_configs).            *)
(*                                                                         *)
(* Two shipped variants of rpc-helpers.ts are modelled side by side:       *)
(*   - src/unnamed/part_001: four providers (QuickNode, Ankr, Metamask,    *)
(*     Alchemy), unknown chains yield undefined.  Its operators keep the   *)
(*     source names (getRpcUrl, getAlchemyRpcUrl, ...).                    *)
(*   - src/unnamed/part_002: three providers, unknown chains throw.  Its   *)
(*     operators carry the suffix _p2 (getRpcUrl_p2, ...).                 *)
(*                                                                         *)
(* JavaScript values are tagged records: undefined, null, Str(s) and       *)
(* objects (records with type |-> "object").  A call ends in an outcome:   *)
(* Return(v) or Throw(message).                                            *)
(***************************************************************************)
EXTENDS Integers, Sequences, FiniteSets, TLC

VARIABLES
  CHAIN_INFO_MAP,  \* the chain registry (chain-info-map.ts), read by every operation
  op,              \* the operation that was called, "idle" between calls
  apiKeys,         \* argument: the ApiKeys object of getRpcUrl
  chain,           \* argument: the chain identifier
  endpoint,        \* argument: the preferred endpoint of getRpcUrl
  credential,      \* argument: the API key (or bundle) of a single-provider builder
  args,            \* arguments of getVisibleChains and getChainInfoById
  result,          \* the outcome of the call
  history          \* the getRpcUrl calls made so far and their outcomes (SpecCalls)

vars == <<CHAIN_INFO_MAP, op, apiKeys, chain, endpoint, credential, args, result, history>>

-----------------------------------------------------------------------------
(* JavaScript values and outcomes *)

undefined == [type |-> "undefined"]

null == [type |-> "null"]

Str(s) == [type |-> "string", str |-> s]

Bool(b) == [type |-> "boolean", val |-> b]

Num(n) == [type |-> "number", num |-> n]

\* typeof v === 'string'
IsString(v) == v.type = "string"

\* JavaScript truthiness of undefined, null, strings and objects: `!v` is ~Truthy(v)
Truthy(v) ==
  CASE v.type = "undefined" -> FALSE
    [] v.type = "null" -> FALSE
    [] v.type = "string" -> v.str # ""
    [] v.type = "boolean" -> v.val
    [] v.type = "number" -> v.num # 0
    [] OTHER -> TRUE

\* String(v), as a template literal `${v}` computes it
StringOf(v) ==
  CASE v.type = "undefined" -> "undefined"
    [] v.type = "null" -> "null"
    [] v.type = "string" -> v.str
    [] OTHER -> "[object Object]"

\* o.name for an object o: undefined when the object has no such property
Prop(o, name) == IF name \in DOMAIN o THEN o[name] ELSE undefined

Return(v) == [threw |-> FALSE, value |-> v]

Throw(message) == [threw |-> TRUE, error |-> message]

\* The TypeError of reading property `name` of undefined or null
TypeErrorReading(name) == "TypeError: Cannot read properties of undefined (reading '" \o name \o "')"

-----------------------------------------------------------------------------
(* The chain registry *)

\* chain-info-map.ts is not among the source files.  The table holds the
\* records the documentation and the tests of rpc-helpers.ts pin down
\* (chain ids, names, network slugs, explorer domains, USDC addresses); the
\* fields they leave open (mailerAddress, some slugs) are representative.
Registry ==
  [ETH_MAINNET |->
     [type |-> "object", chain |-> "ETH_MAINNET", chainType |-> "EVM", chainId |-> 1,
      name |-> "Ethereum",
      alchemyNetwork |-> Str("eth-mainnet"), ankrNetwork |-> Str("eth"),
      metamaskNetwork |-> Str("mainnet"), quicknodeNetwork |-> Str("ethereum-mainnet"),
      explorerDomain |-> Str("api.etherscan.io"),
      explorerBrowserDomain |-> Str("etherscan.io"),
      usdcAddress |-> Str("0xA0b86991c6218b36c1d19D4a2e9Eb0cE3606eB48"),
      isTestNet |-> FALSE, mailerAddress |-> Str("0xMailerEth")],
   POLYGON_MAINNET |->
     [type |-> "object", chain |-> "POLYGON_MAINNET", chainType |-> "EVM", chainId |-> 137,
      name |-> "Polygon",
      alchemyNetwork |-> Str("polygon-mainnet"), ankrNetwork |-> Str("polygon"),
      metamaskNetwork |-> Str("polygon-mainnet"), quicknodeNetwork |-> undefined,
      explorerDomain |-> Str("api.polygonscan.com"),
      explorerBrowserDomain |-> Str("polygonscan.com"),
      usdcAddress |-> Str("0x2791Bca1f2de4661ED88A30C99A7a9449Aa84174"),
      isTestNet |-> FALSE, mailerAddress |-> undefined],
   BASE_MAINNET |->
     [type |-> "object", chain |-> "BASE_MAINNET", chainType |-> "EVM", chainId |-> 8453,
      name |-> "Base",
      alchemyNetwork |-> Str("base-mainnet"), ankrNetwork |-> Str("base"),
      metamaskNetwork |-> undefined, quicknodeNetwork |-> Str("base-mainnet"),
      explorerDomain |-> Str("api.basescan.org"),
      explorerBrowserDomain |-> Str("basescan.org"),
      usdcAddress |-> Str("0x833589fCD6eDb6E08f4c7C32D4f71b54bdA02913"),
      isTestNet |-> FALSE, mailerAddress |-> Str("0xMailerBase")],
   MONAD_MAINNET |->
     [type |-> "object", chain |-> "MONAD_MAINNET", chainType |-> "EVM", chainId |-> 143,
      name |-> "Monad",
      alchemyNetwork |-> undefined, ankrNetwork |-> undefined,
      metamaskNetwork |-> undefined, quicknodeNetwork |-> undefined,
      explorerDomain |-> undefined, explorerBrowserDomain |-> undefined,
      usdcAddress |-> undefined,
      isTestNet |-> FALSE, mailerAddress |-> undefined],
   ETH_SEPOLIA |->
     [type |-> "object", chain |-> "ETH_SEPOLIA", chainType |-> "EVM", chainId |-> 11155111,
      name |-> "Ethereum Sepolia",
      alchemyNetwork |-> Str("eth-sepolia"), ankrNetwork |-> Str("eth_sepolia"),
      metamaskNetwork |-> Str("sepolia"), quicknodeNetwork |-> Str("ethereum-sepolia"),
      explorerDomain |-> Str("api-sepolia.etherscan.io"),
      explorerBrowserDomain |-> Str("sepolia.etherscan.io"),
      usdcAddress |-> Str("0x1c7D4B196Cb0C7B01d743Fbc6116a902379C7238"),
      isTestNet |-> TRUE, mailerAddress |-> Str("0xMailerSepolia")],
   SOLANA_MAINNET |->
     [type |-> "object", chain |-> "SOLANA_MAINNET", chainType |-> "SOLANA", chainId |-> -101,
      name |-> "Solana",
      alchemyNetwork |-> Str("solana-mainnet"), ankrNetwork |-> Str("solana"),
      metamaskNetwork |-> undefined, quicknodeNetwork |-> Str("solana-mainnet"),
      explorerDomain |-> undefined,
      explorerBrowserDomain |-> Str("explorer.solana.com"),
      usdcAddress |-> Str("EPjFWdd5AufqSSqeM2qN1xzybapC8G4wEGGkZwyTDt1v"),
      isTestNet |-> FALSE, mailerAddress |-> Str("MailerSolana")]]

\* A table whose Solana record carries an explorerDomain, which the table of
\* chain-info-map.ts is described as never doing: the chain-type check of
\* getExplorerApiUrl decides nothing on any other table
SolanaExplorerRegistry ==
  [ETH_MAINNET |-> Registry.ETH_MAINNET,
   SOLANA_DEVNET |->
     [type |-> "object", chain |-> "SOLANA_DEVNET", chainType |-> "SOLANA", chainId |-> -103,
      name |-> "Solana Devnet",
      alchemyNetwork |-> Str("solana-devnet"), ankrNetwork |-> Str("solana_devnet"),
      metamaskNetwork |-> undefined, quicknodeNetwork |-> undefined,
      explorerDomain |-> Str("api.solscan.io"),
      explorerBrowserDomain |-> Str("explorer.solana.com"),
      usdcAddress |-> undefined,
      isTestNet |-> TRUE, mailerAddress |-> Str("MailerSolanaDevnet")]]

Registries == {Registry, SolanaExplorerRegistry}

\* The order in which the keys of the tables were inserted
ChainOrder ==
  <<"ETH_MAINNET", "POLYGON_MAINNET", "BASE_MAINNET", "MONAD_MAINNET", "ETH_SEPOLIA",
    "SOLANA_MAINNET", "SOLANA_DEVNET">>

\* A chain identifier outside the registry ('UNKNOWN' as Chain)
UnknownChain == "UNKNOWN"

\* The chain identifiers the operations are called with
Chains == DOMAIN CHAIN_INFO_MAP \cup {UnknownChain}

\* Object.values(map): the records in the insertion order of their keys
ObjectValues(map) ==
  LET present == SelectSeq(ChainOrder, LAMBDA c : c \in DOMAIN map)
  IN  [i \in 1..Len(present) |-> map[present[i]]]

-----------------------------------------------------------------------------
(* part_001: the QuickNode variant, unknown chains yield undefined *)

\* CHAIN_INFO_MAP[chain]
getChainInfo(c) == IF c \in DOMAIN CHAIN_INFO_MAP THEN CHAIN_INFO_MAP[c] ELSE undefined

\* An array value
Arr(items) == [type |-> "array", items |-> items]

\* getVisibleChains without its mailerAddress condition
getVisibleChains_noMailerCheck(chainType, includesTestNetArg) ==
  LET includesTestNet == IF includesTestNetArg = undefined THEN Bool(TRUE)
                         ELSE includesTestNetArg
  IN  Return(Arr(SelectSeq(ObjectValues(CHAIN_INFO_MAP),
        LAMBDA info :
          /\ (chainType = undefined \/ (IsString(chainType) /\ info.chainType = chainType.str))
          /\ (Truthy(includesTestNet) \/ ~info.isTestNet))))

\* getVisibleChains with its includesTestNet parameter ignored
getVisibleChains_testNetIgnored(chainType, includesTestNetArg) ==
  Return(Arr(SelectSeq(ObjectValues(CHAIN_INFO_MAP),
    LAMBDA info :
      /\ (chainType = undefined \/ (IsString(chainType) /\ info.chainType = chainType.str))
      /\ info.mailerAddress # undefined)))

\* includesTestNet defaults to true when the argument is undefined
getVisibleChains(chainType, includesTestNetArg) ==
  LET includesTestNet == IF includesTestNetArg = undefined THEN Bool(TRUE)
                         ELSE includesTestNetArg
  IN  Return(Arr(SelectSeq(ObjectValues(CHAIN_INFO_MAP),
        LAMBDA info :
          /\ (chainType = undefined \/ (IsString(chainType) /\ info.chainType = chainType.str))
          /\ (Truthy(includesTestNet) \/ ~info.isTestNet)
          /\ info.mailerAddress # undefined)))

\* isEvmChain answering true for every chain of the table
isEvmChain_anyRecognized(c) ==
  LET info == IF c \in DOMAIN CHAIN_INFO_MAP THEN CHAIN_INFO_MAP[c] ELSE undefined
  IN  Return(Bool(Truthy(info)))

\* isEvmChain, lines 95-98
isEvmChain(c) ==
  LET info == IF c \in DOMAIN CHAIN_INFO_MAP THEN CHAIN_INFO_MAP[c] ELSE undefined
  IN  Return(IF Truthy(info) THEN Bool(info.chainType = "EVM") ELSE Bool(FALSE))

\* isSolanaChain, lines 105-108
isSolanaChain(c) ==
  LET info == IF c \in DOMAIN CHAIN_INFO_MAP THEN CHAIN_INFO_MAP[c] ELSE undefined
  IN  Return(IF Truthy(info) THEN Bool(info.chainType = "SOLANA") ELSE Bool(FALSE))

\* getChainId giving the magnitude of the id
getChainId_magnitude(c) ==
  LET info == getChainInfo(c)
  IN  Return(IF info = undefined \/ info = null THEN undefined
             ELSE Num(IF info.chainId < 0 THEN -info.chainId ELSE info.chainId))

\* info?.chainId
getChainId(c) ==
  LET info == getChainInfo(c)
  IN  Return(IF info = undefined \/ info = null THEN undefined ELSE Num(info.chainId))

\* getChainInfoById looking at EVM records only
getChainInfoById_evmOnly(chainId) ==
  LET values == ObjectValues(CHAIN_INFO_MAP)
      found == {i \in 1..Len(values) :
                  /\ values[i].chainType = "EVM"
                  /\ chainId.type = "number" /\ values[i].chainId = chainId.num}
  IN  IF found = {} THEN Return(undefined)
      ELSE Return(values[CHOOSE i \in found : \A j \in found : i <= j])

\* Object.values(CHAIN_INFO_MAP).find(...): the first record with that chainId
getChainInfoById(chainId) ==
  LET values == ObjectValues(CHAIN_INFO_MAP)
      found == {i \in 1..Len(values) :
                  chainId.type = "number" /\ values[i].chainId = chainId.num}
  IN  IF found = {} THEN Return(undefined)
      ELSE Return(values[CHOOSE i \in found : \A j \in found : i <= j])

\* info?.chainType
getChainType(c) ==
  LET info == getChainInfo(c)
  IN  Return(IF info = undefined \/ info = null THEN undefined ELSE Str(info.chainType))

\* info?.name
getUserFriendlyName(c) ==
  LET info == getChainInfo(c)
  IN  Return(IF info = undefined \/ info = null THEN undefined ELSE Str(info.name))

\* getUSDCAddress reading the field without the optional chaining of `info?.`
getUSDCAddress_noOptionalChaining(c) ==
  LET info == getChainInfo(c)
  IN  IF info = undefined \/ info = null THEN Throw(TypeErrorReading("usdcAddress"))
      ELSE Return(info.usdcAddress)

\* info?.usdcAddress
getUSDCAddress(c) ==
  LET info == getChainInfo(c)
  IN  Return(IF info = undefined \/ info = null THEN undefined ELSE info.usdcAddress)

\* The key read from the top level of the bundle, as the documentation's
\* example lays the bundle out
alchemyApiKeyOf_topLevel(apiKeyOrApis) ==
  IF IsString(apiKeyOrApis) \/ apiKeyOrApis = undefined \/ apiKeyOrApis = null
    THEN Return(apiKeyOrApis)
    ELSE Return(Prop(apiKeyOrApis, "alchemyApiKey"))

\* The key the Alchemy builder uses: the argument itself when it is a string,
\* undefined or null, else apiKeyOrApis.apiKeys.alchemyApiKey (an outcome:
\* reading a property of a missing apiKeys throws)
alchemyApiKeyOf(apiKeyOrApis) ==
  IF IsString(apiKeyOrApis) \/ apiKeyOrApis = undefined \/ apiKeyOrApis = null
    THEN Return(apiKeyOrApis)
    ELSE LET keys == Prop(apiKeyOrApis, "apiKeys")
         IN  IF keys = undefined \/ keys = null
               THEN Throw(TypeErrorReading("alchemyApiKey"))
               ELSE Return(Prop(keys, "alchemyApiKey"))

getAlchemyRpcUrl(apiKeyOrApis, c) ==
  LET key == alchemyApiKeyOf(apiKeyOrApis)
  IN  IF key.threw THEN key
      ELSE IF ~Truthy(key.value) THEN Return(undefined)
      ELSE LET chainInfo == getChainInfo(c)
           IN  IF ~Truthy(chainInfo) THEN Return(undefined)
               ELSE LET network == chainInfo.alchemyNetwork
                    IN  IF ~Truthy(network) THEN Return(undefined)
                        ELSE Return(Str("https://" \o StringOf(network)
                                        \o ".g.alchemy.com/v2/" \o StringOf(key.value)))

\* getAnkrRpcUrl without its empty-key check
getAnkrRpcUrl_noKeyCheck(ankrApiKey, c) ==
  LET chainInfo == getChainInfo(c)
  IN  IF ~Truthy(chainInfo) THEN Return(undefined)
      ELSE LET network == chainInfo.ankrNetwork
           IN  IF ~Truthy(network) THEN Return(undefined)
               ELSE Return(Str("https://rpc.ankr.com/" \o StringOf(network)
                               \o "/" \o StringOf(ankrApiKey)))

getAnkrRpcUrl(ankrApiKey, c) ==
  IF ~Truthy(ankrApiKey) THEN Return(undefined)
  ELSE LET chainInfo == getChainInfo(c)
       IN  IF ~Truthy(chainInfo) THEN Return(undefined)
           ELSE LET network == chainInfo.ankrNetwork
                IN  IF ~Truthy(network) THEN Return(undefined)
                    ELSE Return(Str("https://rpc.ankr.com/" \o StringOf(network)
                                    \o "/" \o StringOf(ankrApiKey)))

\* getMetamaskRpcUrl without its missing-network check
getMetamaskRpcUrl_noNetworkCheck(metamaskApiKey, c) ==
  IF ~Truthy(metamaskApiKey) THEN Return(undefined)
  ELSE LET chainInfo == getChainInfo(c)
       IN  IF ~Truthy(chainInfo) THEN Return(undefined)
           ELSE Return(Str("https://" \o StringOf(chainInfo.metamaskNetwork)
                           \o ".infura.io/v3/" \o StringOf(metamaskApiKey)))

getMetamaskRpcUrl(metamaskApiKey, c) ==
  IF ~Truthy(metamaskApiKey) THEN Return(undefined)
  ELSE LET chainInfo == getChainInfo(c)
       IN  IF ~Truthy(chainInfo) THEN Return(undefined)
           ELSE LET network == chainInfo.metamaskNetwork
                IN  IF ~Truthy(network) THEN Return(undefined)
                    ELSE Return(Str("https://" \o StringOf(network)
                                    \o ".infura.io/v3/" \o StringOf(metamaskApiKey)))

\* split that cuts at the first separator only
split_atFirstOnly(s, sep) ==
  IF \A i \in 1..Len(s) : SubSeq(s, i, i) # sep
    THEN <<s>>
    ELSE LET i == CHOOSE j \in 1..Len(s) :
                    /\ SubSeq(s, j, j) = sep
                    /\ \A k \in 1..(j - 1) : SubSeq(s, k, k) # sep
         IN  <<SubSeq(s, 1, i - 1), SubSeq(s, i + 1, Len(s))>>

\* s.split(sep) for a one-character separator: the pieces between separators
RECURSIVE split(_, _)
split(s, sep) ==
  IF \A i \in 1..Len(s) : SubSeq(s, i, i) # sep
    THEN <<s>>
    ELSE LET i == CHOOSE j \in 1..Len(s) :
                    /\ SubSeq(s, j, j) = sep
                    /\ \A k \in 1..(j - 1) : SubSeq(s, k, k) # sep
         IN  <<SubSeq(s, 1, i - 1)>> \o split(SubSeq(s, i + 1, Len(s)), sep)

getQuickNodeRpcUrl(quicknodeApiKey, c) ==
  IF ~Truthy(quicknodeApiKey) THEN Return(undefined)
  ELSE IF ~IsString(quicknodeApiKey)
    THEN Throw("TypeError: quicknodeApiKey.split is not a function")
  ELSE LET parts == split(quicknodeApiKey.str, ":")
       IN  IF Len(parts) # 2 \/ parts[1] = "" \/ parts[2] = "" THEN Return(undefined)
           ELSE LET subdomain == parts[1]
                    token == parts[2]
                    chainInfo == getChainInfo(c)
                IN  IF ~Truthy(chainInfo) THEN Return(undefined)
                    ELSE LET network == chainInfo.quicknodeNetwork
                         IN  IF ~Truthy(network) THEN Return(undefined)
                             ELSE Return(Str("https://" \o subdomain \o "." \o StringOf(network)
                                             \o ".quiknode.pro/" \o token \o "/"))

\* The letters String.prototype.toUpperCase maps (ASCII)
LowerLetters == "abcdefghijklmnopqrstuvwxyz"

UpperLetters == "ABCDEFGHIJKLMNOPQRSTUVWXYZ"

\* s.toUpperCase(): every lower-case letter replaced by its upper-case letter
\* toUpperCase left out: the endpoint string is compared as it was given
toUpperCase_asGiven(s) == s

RECURSIVE toUpperCase(_)
toUpperCase(s) ==
  IF s = "" THEN ""
  ELSE LET ch == Head(s)
           up == IF \E i \in 1..Len(LowerLetters) : SubSeq(LowerLetters, i, i) = ch
                   THEN LET i == CHOOSE j \in 1..Len(LowerLetters) : SubSeq(LowerLetters, j, j) = ch
                        IN  SubSeq(UpperLetters, i, i)
                   ELSE ch
       IN  up \o toUpperCase(Tail(s))

\* enum RpcEndpoint
RpcEndpoint == [Alchemy |-> Str("alchemy"), Ankr |-> Str("ankr"),
                Metamask |-> Str("metamask"), QuickNode |-> Str("quicknode")]

\* getRpcUrl, lines 577-600: a string endpoint is upper-cased and matched
\* against the four provider names; anything else is taken as it is
resolveEndpoint(e) ==
  IF IsString(e)
    THEN LET upperEndpoint == toUpperCase(e.str)
         IN  CASE upperEndpoint = "ALCHEMY" -> RpcEndpoint.Alchemy
               [] upperEndpoint = "ANKR" -> RpcEndpoint.Ankr
               [] upperEndpoint = "METAMASK" -> RpcEndpoint.Metamask
               [] upperEndpoint = "QUICKNODE" -> RpcEndpoint.QuickNode
               [] OTHER -> undefined
    ELSE e

\* The preferred Ankr and Metamask URLs built with the Alchemy key
preferredUrlOf_alchemyKeyEverywhere(keys, c, resolvedEndpoint) ==
  CASE resolvedEndpoint = RpcEndpoint.Alchemy -> getAlchemyRpcUrl(Prop(keys, "alchemyApiKey"), c)
    [] resolvedEndpoint = RpcEndpoint.Ankr -> getAnkrRpcUrl(Prop(keys, "alchemyApiKey"), c)
    [] resolvedEndpoint = RpcEndpoint.Metamask -> getMetamaskRpcUrl(Prop(keys, "alchemyApiKey"), c)
    [] resolvedEndpoint = RpcEndpoint.QuickNode -> getQuickNodeRpcUrl(Prop(keys, "quicknodeApiKey"), c)
    [] OTHER -> Return(undefined)

\* getRpcUrl, lines 606-619: the preferred provider's builder with its own key
preferredUrlOf(keys, c, resolvedEndpoint) ==
  CASE resolvedEndpoint = RpcEndpoint.Alchemy -> getAlchemyRpcUrl(Prop(keys, "alchemyApiKey"), c)
    [] resolvedEndpoint = RpcEndpoint.Ankr -> getAnkrRpcUrl(Prop(keys, "ankrApiKey"), c)
    [] resolvedEndpoint = RpcEndpoint.Metamask -> getMetamaskRpcUrl(Prop(keys, "metamaskApiKey"), c)
    [] resolvedEndpoint = RpcEndpoint.QuickNode -> getQuickNodeRpcUrl(Prop(keys, "quicknodeApiKey"), c)
    [] OTHER -> Return(undefined)

\* The priority order of part_002 in part_001: QuickNode is never tried
priorityOrderUrl_noQuickNode(keys, c) ==
  LET ankrUrl == getAnkrRpcUrl(Prop(keys, "ankrApiKey"), c)
  IN  IF ankrUrl.threw \/ Truthy(ankrUrl.value) THEN ankrUrl
      ELSE LET metamaskUrl == getMetamaskRpcUrl(Prop(keys, "metamaskApiKey"), c)
           IN  IF metamaskUrl.threw \/ Truthy(metamaskUrl.value) THEN metamaskUrl
               ELSE getAlchemyRpcUrl(Prop(keys, "alchemyApiKey"), c)

\* getRpcUrl, lines 629-650: QuickNode > Ankr > Metamask > Alchemy
priorityOrderUrl(keys, c) ==
  LET quicknodeUrl == getQuickNodeRpcUrl(Prop(keys, "quicknodeApiKey"), c)
  IN  IF quicknodeUrl.threw \/ Truthy(quicknodeUrl.value) THEN quicknodeUrl
      ELSE LET ankrUrl == getAnkrRpcUrl(Prop(keys, "ankrApiKey"), c)
           IN  IF ankrUrl.threw \/ Truthy(ankrUrl.value) THEN ankrUrl
               ELSE LET metamaskUrl == getMetamaskRpcUrl(Prop(keys, "metamaskApiKey"), c)
                    IN  IF metamaskUrl.threw \/ Truthy(metamaskUrl.value) THEN metamaskUrl
                        ELSE LET alchemyUrl == getAlchemyRpcUrl(Prop(keys, "alchemyApiKey"), c)
                             IN  IF alchemyUrl.threw \/ Truthy(alchemyUrl.value) THEN alchemyUrl
                                 ELSE Return(undefined)

\* getRpcUrl taking turns between the two ends of the priority order with
\* the number of calls made before
getRpcUrl_roundRobin(keys, c, e) ==
  LET resolvedEndpoint == resolveEndpoint(e)
      preferredUrl == preferredUrlOf(keys, c, resolvedEndpoint)
      alchemyUrl == getAlchemyRpcUrl(Prop(keys, "alchemyApiKey"), c)
      turnUrl == IF Len(history) % 2 = 1 /\ Truthy(alchemyUrl.value) THEN alchemyUrl
                 ELSE priorityOrderUrl(keys, c)
  IN  IF resolvedEndpoint # undefined /\ Truthy(preferredUrl.value) THEN preferredUrl
      ELSE turnUrl

\* The preferred provider's answer returned as it is, as part_002 does
getRpcUrl_noFallback(keys, c, e) ==
  LET resolvedEndpoint == resolveEndpoint(e)
  IN  IF resolvedEndpoint # undefined
        THEN preferredUrlOf(keys, c, resolvedEndpoint)
        ELSE priorityOrderUrl(keys, c)

\* The endpoint argument ignored
getRpcUrl_ignoresEndpoint(keys, c, e) == priorityOrderUrl(keys, c)

getRpcUrl(keys, c, e) ==
  LET resolvedEndpoint == resolveEndpoint(e)
  IN  IF resolvedEndpoint # undefined
        THEN LET preferredUrl == preferredUrlOf(keys, c, resolvedEndpoint)
             IN  IF preferredUrl.threw \/ Truthy(preferredUrl.value) THEN preferredUrl
                 ELSE priorityOrderUrl(keys, c)
        ELSE priorityOrderUrl(keys, c)

\* getExplorerApiUrl without its chain-type check
getExplorerApiUrl_noSolanaCheck(apiKeyOrApis, c) ==
  IF ~IsString(apiKeyOrApis) /\ (apiKeyOrApis = undefined \/ apiKeyOrApis = null)
    THEN Throw(TypeErrorReading("etherscanApiKey"))
  ELSE LET etherscanApiKey == IF IsString(apiKeyOrApis) THEN apiKeyOrApis
                                ELSE Prop(apiKeyOrApis, "etherscanApiKey")
       IN  IF ~Truthy(etherscanApiKey) THEN Return(undefined)
           ELSE LET chainInfo == getChainInfo(c)
                IN  IF ~Truthy(chainInfo) THEN Return(undefined)
                    ELSE LET domain == chainInfo.explorerDomain
                         IN  IF ~Truthy(domain) THEN Return(undefined)
                             ELSE Return(Str("https://" \o StringOf(domain)
                                             \o "/api?apikey=" \o StringOf(etherscanApiKey)))

getExplorerApiUrl(apiKeyOrApis, c) ==
  IF ~IsString(apiKeyOrApis) /\ (apiKeyOrApis = undefined \/ apiKeyOrApis = null)
    THEN Throw(TypeErrorReading("etherscanApiKey"))
  ELSE LET etherscanApiKey == IF IsString(apiKeyOrApis) THEN apiKeyOrApis
                                ELSE Prop(apiKeyOrApis, "etherscanApiKey")
       IN  IF ~Truthy(etherscanApiKey) THEN Return(undefined)
           ELSE LET chainInfo == getChainInfo(c)
                IN  IF ~Truthy(chainInfo) THEN Return(undefined)
                    ELSE IF chainInfo.chainType = "SOLANA" THEN Return(undefined)
                    ELSE LET domain == chainInfo.explorerDomain
                         IN  IF ~Truthy(domain) THEN Return(undefined)
                             ELSE Return(Str("https://" \o StringOf(domain)
                                             \o "/api?apikey=" \o StringOf(etherscanApiKey)))

\* getBlockExplorerUrl without its unknown-chain check
getBlockExplorerUrl_noChainCheck(c) ==
  LET chainInfo == getChainInfo(c)
  IN  IF chainInfo = undefined THEN Throw(TypeErrorReading("explorerBrowserDomain"))
      ELSE LET domain == chainInfo.explorerBrowserDomain
           IN  IF ~Truthy(domain) THEN Return(undefined)
               ELSE Return(Str("https://" \o StringOf(domain)))

getBlockExplorerUrl(c) ==
  LET chainInfo == getChainInfo(c)
  IN  IF ~Truthy(chainInfo) THEN Return(undefined)
      ELSE LET domain == chainInfo.explorerBrowserDomain
           IN  IF ~Truthy(domain) THEN Return(undefined)
               ELSE Return(Str("https://" \o StringOf(domain)))

\* The object literal of deriveChainInfo: the properties are evaluated in the
\* order written, and the first call that throws ends the evaluation
DerivedRecord(c, parts) ==
  LET thrown == {i \in 1..Len(parts) : parts[i].threw}
  IN  IF thrown # {} THEN parts[CHOOSE i \in thrown : \A j \in thrown : i <= j]
      ELSE Return([type |-> "object", chain |-> c,
                   chainId |-> parts[1].value, chainType |-> parts[2].value,
                   name |-> parts[3].value, rpcUrl |-> parts[4].value,
                   explorerApiUrl |-> parts[5].value, explorerUrl |-> parts[6].value,
                   usdcAddress |-> parts[7].value])

\* deriveChainInfo taking its rpcUrl from the Ankr builder and key
deriveChainInfo_ankrRpcUrl(config) ==
  LET c == config.chain
  IN  DerivedRecord(c, <<getChainId(c), getChainType(c), getUserFriendlyName(c),
                         getAnkrRpcUrl(Prop(config, "ankrApiKey"), c),
                         getExplorerApiUrl(Prop(config, "etherscanApiKey"), c),
                         getBlockExplorerUrl(c), getUSDCAddress(c)>>)

deriveChainInfo(config) ==
  LET c == config.chain
  IN  DerivedRecord(c, <<getChainId(c), getChainType(c), getUserFriendlyName(c),
                         getAlchemyRpcUrl(Prop(config, "alchemyApiKey"), c),
                         getExplorerApiUrl(Prop(config, "etherscanApiKey"), c),
                         getBlockExplorerUrl(c), getUSDCAddress(c)>>)

-----------------------------------------------------------------------------
(* part_002: the three-provider variant, unknown chains throw *)

getChainInfo_p2(c) ==
  IF c \in DOMAIN CHAIN_INFO_MAP THEN Return(CHAIN_INFO_MAP[c])
  ELSE Throw("Unknown chain: " \o c)

\* apiKeyOrApis when it is a string, else apiKeyOrApis.apiKeys.alchemyApiKey
alchemyApiKeyOf_p2(apiKeyOrApis) ==
  IF IsString(apiKeyOrApis) THEN Return(apiKeyOrApis)
  ELSE IF apiKeyOrApis = undefined \/ apiKeyOrApis = null
    THEN Throw(TypeErrorReading("apiKeys"))
  ELSE LET keys == Prop(apiKeyOrApis, "apiKeys")
       IN  IF keys = undefined \/ keys = null
             THEN Throw(TypeErrorReading("alchemyApiKey"))
             ELSE Return(Prop(keys, "alchemyApiKey"))

getAlchemyRpcUrl_p2(apiKeyOrApis, c) ==
  LET key == alchemyApiKeyOf_p2(apiKeyOrApis)
  IN  IF key.threw THEN key
      ELSE IF ~Truthy(key.value) THEN Return(undefined)
      ELSE LET chainInfo == getChainInfo_p2(c)
           IN  IF chainInfo.threw THEN chainInfo
               ELSE LET network == chainInfo.value.alchemyNetwork
                    IN  IF ~Truthy(network) THEN Return(undefined)
                        ELSE Return(Str("https://" \o StringOf(network)
                                        \o ".g.alchemy.com/v2/" \o StringOf(key.value)))

\* getAnkrRpcUrl of part_002 looking the chain up before it tests the key
getAnkrRpcUrl_p2_lookupFirst(ankrApiKey, c) ==
  LET chainInfo == getChainInfo_p2(c)
  IN  IF chainInfo.threw THEN chainInfo
      ELSE IF ~Truthy(ankrApiKey) THEN Return(undefined)
      ELSE LET network == chainInfo.value.ankrNetwork
           IN  IF ~Truthy(network) THEN Return(undefined)
               ELSE Return(Str("https://rpc.ankr.com/" \o StringOf(network)
                               \o "/" \o StringOf(ankrApiKey)))

getAnkrRpcUrl_p2(ankrApiKey, c) ==
  IF ~Truthy(ankrApiKey) THEN Return(undefined)
  ELSE LET chainInfo == getChainInfo_p2(c)
       IN  IF chainInfo.threw THEN chainInfo
           ELSE LET network == chainInfo.value.ankrNetwork
                IN  IF ~Truthy(network) THEN Return(undefined)
                    ELSE Return(Str("https://rpc.ankr.com/" \o StringOf(network)
                                    \o "/" \o StringOf(ankrApiKey)))

\* getMetamaskRpcUrl of part_002 with the Ankr slug of the chain
getMetamaskRpcUrl_p2_ankrSlug(metamaskApiKey, c) ==
  IF ~Truthy(metamaskApiKey) THEN Return(undefined)
  ELSE LET chainInfo == getChainInfo_p2(c)
       IN  IF chainInfo.threw THEN chainInfo
           ELSE LET network == chainInfo.value.ankrNetwork
                IN  IF ~Truthy(network) THEN Return(undefined)
                    ELSE Return(Str("https://" \o StringOf(network)
                                    \o ".infura.io/v3/" \o StringOf(metamaskApiKey)))

getMetamaskRpcUrl_p2(metamaskApiKey, c) ==
  IF ~Truthy(metamaskApiKey) THEN Return(undefined)
  ELSE LET chainInfo == getChainInfo_p2(c)
       IN  IF chainInfo.threw THEN chainInfo
           ELSE LET network == chainInfo.value.metamaskNetwork
                IN  IF ~Truthy(network) THEN Return(undefined)
                    ELSE Return(Str("https://" \o StringOf(network)
                                    \o ".infura.io/v3/" \o StringOf(metamaskApiKey)))

\* enum RpcEndpoint of part_002
RpcEndpoint_p2 == [Alchemy |-> Str("alchemy"), Ankr |-> Str("ankr"),
                   Metamask |-> Str("metamask")]

\* v ?? '': the empty string for undefined and null
OrEmpty(v) == IF v = undefined \/ v = null THEN Str("") ELSE v

\* Metamask tried before Ankr
priorityOrderUrl_p2_metamaskFirst(keys, c) ==
  LET metamaskUrl == getMetamaskRpcUrl_p2(OrEmpty(Prop(keys, "metamaskApiKey")), c)
  IN  IF metamaskUrl.threw \/ Truthy(metamaskUrl.value) THEN metamaskUrl
      ELSE LET ankrUrl == getAnkrRpcUrl_p2(OrEmpty(Prop(keys, "ankrApiKey")), c)
           IN  IF ankrUrl.threw \/ Truthy(ankrUrl.value) THEN ankrUrl
               ELSE getAlchemyRpcUrl_p2(OrEmpty(Prop(keys, "alchemyApiKey")), c)

\* getRpcUrl, lines 488-504: Ankr > Metamask > Alchemy
priorityOrderUrl_p2(keys, c) ==
  LET ankrUrl == getAnkrRpcUrl_p2(OrEmpty(Prop(keys, "ankrApiKey")), c)
  IN  IF ankrUrl.threw \/ Truthy(ankrUrl.value) THEN ankrUrl
      ELSE LET metamaskUrl == getMetamaskRpcUrl_p2(OrEmpty(Prop(keys, "metamaskApiKey")), c)
           IN  IF metamaskUrl.threw \/ Truthy(metamaskUrl.value) THEN metamaskUrl
               ELSE LET alchemyUrl == getAlchemyRpcUrl_p2(OrEmpty(Prop(keys, "alchemyApiKey")), c)
                    IN  IF alchemyUrl.threw \/ Truthy(alchemyUrl.value) THEN alchemyUrl
                        ELSE Return(undefined)

\* A preferred endpoint that yields nothing falls back to the priority order,
\* as part_001 does
getRpcUrl_p2_fallsBack(keys, c, e) ==
  LET preferredUrl ==
        CASE e = RpcEndpoint_p2.Alchemy -> getAlchemyRpcUrl_p2(OrEmpty(Prop(keys, "alchemyApiKey")), c)
          [] e = RpcEndpoint_p2.Ankr -> getAnkrRpcUrl_p2(OrEmpty(Prop(keys, "ankrApiKey")), c)
          [] e = RpcEndpoint_p2.Metamask -> getMetamaskRpcUrl_p2(OrEmpty(Prop(keys, "metamaskApiKey")), c)
          [] OTHER -> Return(undefined)
  IN  IF preferredUrl.threw \/ Truthy(preferredUrl.value) THEN preferredUrl
      ELSE priorityOrderUrl_p2(keys, c)

getRpcUrl_p2(keys, c, e) ==
  IF e # undefined
    THEN CASE e = RpcEndpoint_p2.Alchemy -> getAlchemyRpcUrl_p2(OrEmpty(Prop(keys, "alchemyApiKey")), c)
           [] e = RpcEndpoint_p2.Ankr -> getAnkrRpcUrl_p2(OrEmpty(Prop(keys, "ankrApiKey")), c)
           [] e = RpcEndpoint_p2.Metamask -> getMetamaskRpcUrl_p2(OrEmpty(Prop(keys, "metamaskApiKey")), c)
           [] OTHER -> Return(undefined)
    ELSE priorityOrderUrl_p2(keys, c)

\* getBlockExplorerUrl of part_002 answering for EVM chains only
getBlockExplorerUrl_p2_evmOnly(c) ==
  LET chainInfo == getChainInfo_p2(c)
  IN  IF chainInfo.threw THEN chainInfo
      ELSE IF chainInfo.value.chainType = "SOLANA" THEN Return(undefined)
      ELSE LET domain == chainInfo.value.explorerBrowserDomain
           IN  IF ~Truthy(domain) THEN Return(undefined)
               ELSE Return(Str("https://" \o StringOf(domain)))

getBlockExplorerUrl_p2(c) ==
  LET chainInfo == getChainInfo_p2(c)
  IN  IF chainInfo.threw THEN chainInfo
      ELSE LET domain == chainInfo.value.explorerBrowserDomain
           IN  IF ~Truthy(domain) THEN Return(undefined)
               ELSE Return(Str("https://" \o StringOf(domain)))

getChainType_p2(c) ==
  IF c \in DOMAIN CHAIN_INFO_MAP THEN Return(Str(CHAIN_INFO_MAP[c].chainType))
  ELSE Throw("Unknown chain: " \o c)

\* getChainId of part_002 written with the optional chaining of part_001
getChainId_p2_returnsAbsent(c) ==
  IF c \in DOMAIN CHAIN_INFO_MAP THEN Return(Num(CHAIN_INFO_MAP[c].chainId))
  ELSE Return(undefined)

getChainId_p2(c) ==
  LET info == getChainInfo_p2(c)
  IN  IF info.threw THEN info ELSE Return(Num(info.value.chainId))

getUSDCAddress_p2(c) ==
  LET info == getChainInfo_p2(c)
  IN  IF info.threw THEN info ELSE Return(info.value.usdcAddress)

getUserFriendlyName_p2(c) ==
  LET info == getChainInfo_p2(c)
  IN  IF info.threw THEN info ELSE Return(Str(info.value.name))

getExplorerApiUrl_p2(apiKeyOrApis, c) ==
  IF ~IsString(apiKeyOrApis) /\ (apiKeyOrApis = undefined \/ apiKeyOrApis = null)
    THEN Throw(TypeErrorReading("etherscanApiKey"))
  ELSE LET etherscanApiKey == IF IsString(apiKeyOrApis) THEN apiKeyOrApis
                                ELSE Prop(apiKeyOrApis, "etherscanApiKey")
       IN  IF ~Truthy(etherscanApiKey) THEN Return(undefined)
           ELSE LET chainInfo == getChainInfo_p2(c)
                IN  IF chainInfo.threw THEN chainInfo
                    ELSE IF chainInfo.value.chainType = "SOLANA" THEN Return(undefined)
                    ELSE LET domain == chainInfo.value.explorerDomain
                         IN  IF ~Truthy(domain) THEN Return(undefined)
                             ELSE Return(Str("https://" \o StringOf(domain)
                                             \o "/api?apikey=" \o StringOf(etherscanApiKey)))

isEvmChain_p2(c) ==
  LET info == IF c \in DOMAIN CHAIN_INFO_MAP THEN CHAIN_INFO_MAP[c] ELSE undefined
  IN  Return(IF Truthy(info) THEN Bool(info.chainType = "EVM") ELSE Bool(FALSE))

\* isSolanaChain of part_002 looking the chain up with getChainInfo, which throws
isSolanaChain_p2_failFast(c) ==
  LET info == getChainInfo_p2(c)
  IN  IF info.threw THEN info ELSE Return(Bool(info.value.chainType = "SOLANA"))

isSolanaChain_p2(c) ==
  LET info == IF c \in DOMAIN CHAIN_INFO_MAP THEN CHAIN_INFO_MAP[c] ELSE undefined
  IN  Return(IF Truthy(info) THEN Bool(info.chainType = "SOLANA") ELSE Bool(FALSE))

deriveChainInfo_p2(config) ==
  LET c == config.chain
  IN  DerivedRecord(c, <<getChainId_p2(c), getChainType_p2(c), getUserFriendlyName_p2(c),
                         getAlchemyRpcUrl_p2(Prop(config, "alchemyApiKey"), c),
                         getExplorerApiUrl_p2(Prop(config, "etherscanApiKey"), c),
                         getBlockExplorerUrl_p2(c), getUSDCAddress_p2(c)>>)

getVisibleChains_p2(chainType, includesTestNetArg) ==
  LET includesTestNet == IF includesTestNetArg = undefined THEN Bool(TRUE)
                         ELSE includesTestNetArg
  IN  Return(Arr(SelectSeq(ObjectValues(CHAIN_INFO_MAP),
        LAMBDA info :
          /\ (chainType = undefined \/ (IsString(chainType) /\ info.chainType = chainType.str))
          /\ (Truthy(includesTestNet) \/ ~info.isTestNet)
          /\ info.mailerAddress # undefined)))

-----------------------------------------------------------------------------
(* The inputs of the calls *)

\* The longest API key string the single-provider builders are called with
MaxKeyLen == 3

\* The characters of those keys: ':' is QuickNode's separator
KeyAlphabet == {"s", "t", ":"}

RECURSIVE StringsOfLen(_)
StringsOfLen(n) ==
  IF n = 0 THEN {""}
  ELSE {s \o ch : s \in StringsOfLen(n - 1), ch \in KeyAlphabet}

KeyStrings == UNION {StringsOfLen(n) : n \in 0..MaxKeyLen}

\* The fields of an ApiKeys object: missing, empty, a plain key, and a key of
\* QuickNode's "subdomain:token" form
SampleKeys == {undefined, Str(""), Str("k"), Str("s:t")}

ApiKeysObjects ==
  {[type |-> "object", alchemyApiKey |-> a, ankrApiKey |-> n,
    metamaskApiKey |-> m, quicknodeApiKey |-> q] :
     a \in SampleKeys, n \in SampleKeys, m \in SampleKeys, q \in SampleKeys}

\* The ApiKeys of part_002 have no quicknodeApiKey
ApiKeysObjects_p2 == {k \in ApiKeysObjects : k.quicknodeApiKey = undefined}

NoApiKeys == [type |-> "object", alchemyApiKey |-> undefined, ankrApiKey |-> undefined,
              metamaskApiKey |-> undefined, quicknodeApiKey |-> undefined]

\* A BlockchainApis object as the interface declares it, and the shape the
\* documentation of getAlchemyRpcUrl and getExplorerApiUrl shows (no apiKeys)
BlockchainApisObjects ==
  {[type |-> "object",
    apiKeys |-> [type |-> "object", alchemyApiKey |-> a, ankrApiKey |-> undefined,
                 metamaskApiKey |-> undefined, quicknodeApiKey |-> undefined],
    etherscanApiKey |-> e] : a \in {undefined, Str(""), Str("k")}, e \in {Str(""), Str("e")}}

DocumentedApisObjects ==
  {[type |-> "object", alchemyApiKey |-> Str("k"), etherscanApiKey |-> Str("e")]}

\* What a single-provider builder may be handed as its API key
StringCredentials == {Str(s) : s \in KeyStrings}

\* Keys longer than MaxKeyLen in QuickNode's form: two colons around non-empty
\* parts, and parts of more than one character
ColonCredentials == {Str("s:t:s"), Str("st:ts"), Str("sub:tok")}

Credentials ==
  {undefined, null} \cup StringCredentials \cup ColonCredentials
  \cup BlockchainApisObjects \cup DocumentedApisObjects

\* Every spelling of s in upper- and lower-case letters
RECURSIVE CaseVariants(_)
CaseVariants(s) ==
  IF s = "" THEN {""}
  ELSE LET ch == Head(s)
           i == CHOOSE j \in 1..Len(LowerLetters) : SubSeq(LowerLetters, j, j) = ch
       IN  {x \o rest : x \in {ch, SubSeq(UpperLetters, i, i)}, rest \in CaseVariants(Tail(s))}

\* Strings that name no provider
UnknownEndpointNames == {"", "infura", "ankr ", "quick-node"}

\* What getRpcUrl may be handed as its endpoint
Endpoints ==
  {undefined, null}
  \cup {Str(s) : s \in CaseVariants("ankr")}
  \cup {Str(s) : s \in {"alchemy", "ALCHEMY", "Alchemy", "metamask", "METAMASK", "MetaMask",
                        "quicknode", "QUICKNODE", "QuickNode"}}
  \cup {Str(s) : s \in UnknownEndpointNames}

\* Every letter-case spelling of every provider name, and the ApiKeys they are
\* tried with: every provider's key given, and none
ProviderSpellings ==
  {Str(s) : s \in CaseVariants("alchemy") \cup CaseVariants("ankr")
                  \cup CaseVariants("metamask") \cup CaseVariants("quicknode")}

SpellingApiKeys ==
  {NoApiKeys,
   [type |-> "object", alchemyApiKey |-> Str("s:t"), ankrApiKey |-> Str("s:t"),
    metamaskApiKey |-> Str("s:t"), quicknodeApiKey |-> Str("s:t")]}

Endpoints_p2 ==
  {undefined, RpcEndpoint_p2.Alchemy, RpcEndpoint_p2.Ankr, RpcEndpoint_p2.Metamask,
   Str("quicknode"), Str("ANKR")}

\* The arguments of getVisibleChains: each may be left out
ChainTypeFilters == {undefined, Str("EVM"), Str("SOLANA")}

TestNetFlags == {undefined, Bool(TRUE), Bool(FALSE)}

\* The ids getChainInfoById is asked for: those of the tables, and some of none
ChainIdInputs ==
  {Num(Registry[c].chainId) : c \in DOMAIN Registry}
  \cup {Num(SolanaExplorerRegistry[c].chainId) : c \in DOMAIN SolanaExplorerRegistry}
  \cup {Num(999999), Num(0), Num(101)}

\* The ChainConfig objects deriveChainInfo is called with, for chain c: each
\* key may be missing or empty, and the config may carry another provider's key
ConfigObjects(c) ==
  {[type |-> "object", chain |-> c, alchemyApiKey |-> a, etherscanApiKey |-> s,
    ankrApiKey |-> n] :
     a \in {undefined, Str(""), Str("k")}, s \in {undefined, Str(""), Str("e")},
     n \in {undefined, Str("k2")}}

-----------------------------------------------------------------------------
(* The calls *)

\* No argument of getVisibleChains or getChainInfoById: another operation runs
NoArgs == [type |-> "none"]

Init ==
  /\ CHAIN_INFO_MAP \in Registries
  /\ op = "idle"
  /\ apiKeys = NoApiKeys
  /\ chain = UnknownChain
  /\ endpoint = undefined
  /\ credential = undefined
  /\ args = NoArgs
  /\ result = Return(undefined)
  /\ history = <<>>

\* A call of getRpcUrl-like operation `name` with outcome `out`
RpcCall(name, keys, c, e, out) ==
  /\ op' = name
  /\ apiKeys' = keys
  /\ chain' = c
  /\ endpoint' = e
  /\ credential' = undefined
  /\ args' = NoArgs
  /\ result' = out
  /\ UNCHANGED <<CHAIN_INFO_MAP, history>>

\* A call of single-credential operation `name` with outcome `out`
KeyCall(name, key, c, out) ==
  /\ op' = name
  /\ apiKeys' = NoApiKeys
  /\ chain' = c
  /\ endpoint' = undefined
  /\ credential' = key
  /\ args' = NoArgs
  /\ result' = out
  /\ UNCHANGED <<CHAIN_INFO_MAP, history>>

GetRpcUrl ==
  /\ op = "idle"
  /\ \/ \E keys \in ApiKeysObjects, c \in Chains, e \in Endpoints :
          RpcCall("getRpcUrl", keys, c, e, getRpcUrl(keys, c, e))
     \/ \E keys \in SpellingApiKeys, e \in ProviderSpellings :
          RpcCall("getRpcUrl", keys, "ETH_MAINNET", e, getRpcUrl(keys, "ETH_MAINNET", e))

GetAlchemyRpcUrl ==
  /\ op = "idle"
  /\ \E key \in Credentials, c \in Chains :
       KeyCall("getAlchemyRpcUrl", key, c, getAlchemyRpcUrl(key, c))

GetAnkrRpcUrl ==
  /\ op = "idle"
  /\ \E key \in Credentials, c \in Chains :
       KeyCall("getAnkrRpcUrl", key, c, getAnkrRpcUrl(key, c))

GetMetamaskRpcUrl ==
  /\ op = "idle"
  /\ \E key \in Credentials, c \in Chains :
       KeyCall("getMetamaskRpcUrl", key, c, getMetamaskRpcUrl(key, c))

GetQuickNodeRpcUrl ==
  /\ op = "idle"
  /\ \E key \in Credentials, c \in Chains :
       KeyCall("getQuickNodeRpcUrl", key, c, getQuickNodeRpcUrl(key, c))

GetExplorerApiUrl ==
  /\ op = "idle"
  /\ \E key \in Credentials, c \in Chains :
       KeyCall("getExplorerApiUrl", key, c, getExplorerApiUrl(key, c))

GetBlockExplorerUrl ==
  /\ op = "idle"
  /\ \E c \in Chains :
       KeyCall("getBlockExplorerUrl", undefined, c, getBlockExplorerUrl(c))

GetRpcUrl_p2 ==
  /\ op = "idle"
  /\ \E keys \in ApiKeysObjects_p2, c \in Chains, e \in Endpoints_p2 :
       RpcCall("getRpcUrl_p2", keys, c, e, getRpcUrl_p2(keys, c, e))

GetAlchemyRpcUrl_p2 ==
  /\ op = "idle"
  /\ \E key \in Credentials, c \in Chains :
       KeyCall("getAlchemyRpcUrl_p2", key, c, getAlchemyRpcUrl_p2(key, c))

GetAnkrRpcUrl_p2 ==
  /\ op = "idle"
  /\ \E key \in Credentials, c \in Chains :
       KeyCall("getAnkrRpcUrl_p2", key, c, getAnkrRpcUrl_p2(key, c))

GetMetamaskRpcUrl_p2 ==
  /\ op = "idle"
  /\ \E key \in Credentials, c \in Chains :
       KeyCall("getMetamaskRpcUrl_p2", key, c, getMetamaskRpcUrl_p2(key, c))

\* A call on the table that filters the table itself, dropping its test
\* networks, instead of a copy of its values
TableCall_filtersInPlace(name, a, out) ==
  /\ op' = name
  /\ apiKeys' = NoApiKeys
  /\ chain' = UnknownChain
  /\ endpoint' = undefined
  /\ credential' = undefined
  /\ args' = a
  /\ result' = out
  /\ CHAIN_INFO_MAP' = [k \in {j \in DOMAIN CHAIN_INFO_MAP : ~CHAIN_INFO_MAP[j].isTestNet}
                           |-> CHAIN_INFO_MAP[k]]
  /\ UNCHANGED history

\* A call of operation `name` on the table alone, with arguments `a`
TableCall(name, a, out) ==
  /\ op' = name
  /\ apiKeys' = NoApiKeys
  /\ chain' = UnknownChain
  /\ endpoint' = undefined
  /\ credential' = undefined
  /\ args' = a
  /\ result' = out
  /\ UNCHANGED <<CHAIN_INFO_MAP, history>>

GetVisibleChains ==
  /\ op = "idle"
  /\ \E chainType \in ChainTypeFilters, includesTestNet \in TestNetFlags :
       TableCall("getVisibleChains",
                 [type |-> "getVisibleChains", chainType |-> chainType,
                  includesTestNet |-> includesTestNet],
                 getVisibleChains(chainType, includesTestNet))

GetVisibleChains_p2 ==
  /\ op = "idle"
  /\ \E chainType \in ChainTypeFilters, includesTestNet \in TestNetFlags :
       TableCall("getVisibleChains_p2",
                 [type |-> "getVisibleChains", chainType |-> chainType,
                  includesTestNet |-> includesTestNet],
                 getVisibleChains_p2(chainType, includesTestNet))

GetChainInfoById ==
  /\ op = "idle"
  /\ \E chainId \in ChainIdInputs :
       TableCall("getChainInfoById", [type |-> "getChainInfoById", chainId |-> chainId],
                 getChainInfoById(chainId))

GetChainId ==
  /\ op = "idle"
  /\ \E c \in Chains : KeyCall("getChainId", undefined, c, getChainId(c))

IsEvmChain ==
  /\ op = "idle"
  /\ \E c \in Chains : KeyCall("isEvmChain", undefined, c, isEvmChain(c))

IsSolanaChain ==
  /\ op = "idle"
  /\ \E c \in Chains : KeyCall("isSolanaChain", undefined, c, isSolanaChain(c))

IsEvmChain_p2 ==
  /\ op = "idle"
  /\ \E c \in Chains : KeyCall("isEvmChain_p2", undefined, c, isEvmChain_p2(c))

IsSolanaChain_p2 ==
  /\ op = "idle"
  /\ \E c \in Chains : KeyCall("isSolanaChain_p2", undefined, c, isSolanaChain_p2(c))

GetChainInfo ==
  /\ op = "idle"
  /\ \E c \in Chains : KeyCall("getChainInfo", undefined, c, Return(getChainInfo(c)))

GetChainType ==
  /\ op = "idle"
  /\ \E c \in Chains : KeyCall("getChainType", undefined, c, getChainType(c))

GetUserFriendlyName ==
  /\ op = "idle"
  /\ \E c \in Chains : KeyCall("getUserFriendlyName", undefined, c, getUserFriendlyName(c))

GetUSDCAddress ==
  /\ op = "idle"
  /\ \E c \in Chains : KeyCall("getUSDCAddress", undefined, c, getUSDCAddress(c))

\* A call of deriveChainInfo-like operation `name` with outcome `out`
ConfigCall(name, config, out) ==
  /\ op' = name
  /\ apiKeys' = NoApiKeys
  /\ chain' = config.chain
  /\ endpoint' = undefined
  /\ credential' = undefined
  /\ args' = [type |-> "deriveChainInfo", config |-> config]
  /\ result' = out
  /\ UNCHANGED <<CHAIN_INFO_MAP, history>>

DeriveChainInfo ==
  /\ op = "idle"
  /\ \E c \in Chains : \E config \in ConfigObjects(c) :
       ConfigCall("deriveChainInfo", config, deriveChainInfo(config))

DeriveChainInfo_p2 ==
  /\ op = "idle"
  /\ \E c \in Chains : \E config \in ConfigObjects(c) :
       ConfigCall("deriveChainInfo_p2", config, deriveChainInfo_p2(config))

GetChainInfo_p2 ==
  /\ op = "idle"
  /\ \E c \in Chains : KeyCall("getChainInfo_p2", undefined, c, getChainInfo_p2(c))

GetChainType_p2 ==
  /\ op = "idle"
  /\ \E c \in Chains : KeyCall("getChainType_p2", undefined, c, getChainType_p2(c))

GetChainId_p2 ==
  /\ op = "idle"
  /\ \E c \in Chains : KeyCall("getChainId_p2", undefined, c, getChainId_p2(c))

GetUserFriendlyName_p2 ==
  /\ op = "idle"
  /\ \E c \in Chains :
       KeyCall("getUserFriendlyName_p2", undefined, c, getUserFriendlyName_p2(c))

GetUSDCAddress_p2 ==
  /\ op = "idle"
  /\ \E c \in Chains : KeyCall("getUSDCAddress_p2", undefined, c, getUSDCAddress_p2(c))

GetExplorerApiUrl_p2 ==
  /\ op = "idle"
  /\ \E key \in Credentials, c \in Chains :
       KeyCall("getExplorerApiUrl_p2", key, c, getExplorerApiUrl_p2(key, c))

GetBlockExplorerUrl_p2 ==
  /\ op = "idle"
  /\ \E c \in Chains :
       KeyCall("getBlockExplorerUrl_p2", undefined, c, getBlockExplorerUrl_p2(c))

\* The call has returned (or thrown) to its caller, which may call again
Done ==
  /\ op # "idle"
  /\ op' = "idle"
  /\ apiKeys' = NoApiKeys
  /\ chain' = UnknownChain
  /\ endpoint' = undefined
  /\ credential' = undefined
  /\ args' = NoArgs
  /\ result' = Return(undefined)
  /\ UNCHANGED <<CHAIN_INFO_MAP, history>>

Next ==
  \/ GetRpcUrl
  \/ GetAlchemyRpcUrl
  \/ GetAnkrRpcUrl
  \/ GetMetamaskRpcUrl
  \/ GetQuickNodeRpcUrl
  \/ GetExplorerApiUrl
  \/ GetBlockExplorerUrl
  \/ GetRpcUrl_p2
  \/ GetAlchemyRpcUrl_p2
  \/ GetAnkrRpcUrl_p2
  \/ GetMetamaskRpcUrl_p2
  \/ GetBlockExplorerUrl_p2
  \/ GetVisibleChains
  \/ GetVisibleChains_p2
  \/ GetChainInfoById
  \/ GetChainId
  \/ IsEvmChain
  \/ IsSolanaChain
  \/ IsEvmChain_p2
  \/ IsSolanaChain_p2
  \/ GetChainInfo
  \/ GetChainType
  \/ GetUserFriendlyName
  \/ GetUSDCAddress
  \/ DeriveChainInfo
  \/ DeriveChainInfo_p2
  \/ GetChainInfo_p2
  \/ GetChainType_p2
  \/ GetChainId_p2
  \/ GetUserFriendlyName_p2
  \/ GetUSDCAddress_p2
  \/ GetExplorerApiUrl_p2
  \/ Done

Spec == Init /\ [][Next]_vars

-----------------------------------------------------------------------------
(* Sequences of getRpcUrl calls, with other operations between them *)

\* The longest sequence of getRpcUrl calls followed
MaxCalls == 3

\* Bundles with keys that differ per provider: both Alchemy and Ankr, Alchemy alone
CallApiKeys ==
  {[type |-> "object", alchemyApiKey |-> Str("k"), ankrApiKey |-> n,
    metamaskApiKey |-> undefined, quicknodeApiKey |-> undefined] :
     n \in {undefined, Str("s:t")}}

\* The arguments of the calls followed: no endpoint and a preferred one on a
\* chain of every table, no endpoint on an unknown chain
CallInputs ==
  {[apiKeys |-> keys, chain |-> ce[1], endpoint |-> ce[2]] :
     keys \in CallApiKeys,
     ce \in {<<"ETH_MAINNET", undefined>>, <<"ETH_MAINNET", RpcEndpoint.Ankr>>,
             <<UnknownChain, undefined>>}}

\* A call of getRpcUrl of variant `name`, entered in the history with its outcome
RecordedRpcCall(name, in, out) ==
  /\ op' = name
  /\ apiKeys' = in.apiKeys
  /\ chain' = in.chain
  /\ endpoint' = in.endpoint
  /\ credential' = undefined
  /\ args' = NoArgs
  /\ result' = out
  /\ history' = Append(history, [op |-> name, apiKeys |-> in.apiKeys, chain |-> in.chain,
                                 endpoint |-> in.endpoint, result |-> out])
  /\ UNCHANGED CHAIN_INFO_MAP

CallGetRpcUrl ==
  /\ op = "idle"
  /\ Len(history) < MaxCalls
  /\ \E in \in CallInputs :
       RecordedRpcCall("getRpcUrl", in, getRpcUrl(in.apiKeys, in.chain, in.endpoint))

CallGetRpcUrl_p2 ==
  /\ op = "idle"
  /\ Len(history) < MaxCalls
  /\ \E in \in CallInputs :
       RecordedRpcCall("getRpcUrl_p2", in, getRpcUrl_p2(in.apiKeys, in.chain, in.endpoint))

\* getRpcUrl calls of both variants in any order, calls of other operations
\* (one that returns, one that may throw) before and between them
NextCalls ==
  \/ CallGetRpcUrl
  \/ CallGetRpcUrl_p2
  \/ GetBlockExplorerUrl
  \/ GetChainInfo_p2
  \/ Done

SpecCalls == Init /\ [][NextCalls]_vars

-----------------------------------------------------------------------------
(* What the claims speak of *)

\* The outcome is a URL (a non-empty string), not undefined and not an error
YieldsUrl(out) == ~out.threw /\ Truthy(out.value)

\* The outcome is absent: undefined was returned and nothing was thrown
Absent(out) == out = Return(undefined)

\* Each provider's builder of part_001 on that provider's own key of apiKeys
ProviderUrl(p, keys, c) ==
  CASE p = "quicknode" -> getQuickNodeRpcUrl(keys.quicknodeApiKey, c)
    [] p = "ankr" -> getAnkrRpcUrl(keys.ankrApiKey, c)
    [] p = "metamask" -> getMetamaskRpcUrl(keys.metamaskApiKey, c)
    [] p = "alchemy" -> getAlchemyRpcUrl(keys.alchemyApiKey, c)

\* Each provider's builder of part_002 on that provider's own key of apiKeys
ProviderUrl_p2(p, keys, c) ==
  CASE p = "ankr" -> getAnkrRpcUrl_p2(OrEmpty(keys.ankrApiKey), c)
    [] p = "metamask" -> getMetamaskRpcUrl_p2(OrEmpty(keys.metamaskApiKey), c)
    [] p = "alchemy" -> getAlchemyRpcUrl_p2(OrEmpty(keys.alchemyApiKey), c)

\* The key of provider p in an ApiKeys object
KeyOf(p, keys) ==
  CASE p = "quicknode" -> keys.quicknodeApiKey
    [] p = "ankr" -> keys.ankrApiKey
    [] p = "metamask" -> keys.metamaskApiKey
    [] p = "alchemy" -> keys.alchemyApiKey

Providers == {"quicknode", "ankr", "metamask", "alchemy"}

Providers_p2 == {"ankr", "metamask", "alchemy"}

\* The documented priority order of part_001
QuickNodeFirst == <<"quicknode", "ankr", "metamask", "alchemy">>

\* The first provider of `order` whose builder yields a URL, as an outcome;
\* absent when none does
FirstUrl(order, keys, c) ==
  LET hits == {i \in 1..Len(order) : YieldsUrl(ProviderUrl(order[i], keys, c))}
  IN  IF hits = {} THEN Return(undefined)
      ELSE ProviderUrl(order[CHOOSE i \in hits : \A j \in hits : i <= j], keys, c)

\* C1: in part_001, getRpcUrl without a preferred endpoint returns the URL of
\* the first provider in the order QuickNode, Ankr, Metamask, Alchemy whose
\* builder yields a URL with its own key, and is absent exactly when all four
\* builders are absent.
C1_PriorityOrder ==
  (op = "getRpcUrl" /\ endpoint = undefined) =>
    /\ result = FirstUrl(QuickNodeFirst, apiKeys, chain)
    /\ Absent(result) <=> \A p \in Providers : Absent(ProviderUrl(p, apiKeys, chain))

\* Metamask answers although Alchemy could: QuickNode's key is malformed and
\* Ankr's is missing
C1_Witness ==
  /\ op = "getRpcUrl" /\ endpoint = undefined /\ chain = "ETH_MAINNET"
  /\ apiKeys.quicknodeApiKey = Str("k") /\ apiKeys.ankrApiKey = undefined
  /\ apiKeys.metamaskApiKey = Str("k") /\ apiKeys.alchemyApiKey = Str("s:t")
  /\ result = Return(Str("https://mainnet.infura.io/v3/k"))

C4_AnkrHighest_Original ==
  /\ (op = "getRpcUrl" /\ endpoint = undefined
        /\ YieldsUrl(ProviderUrl("ankr", apiKeys, chain)))
       => result = ProviderUrl("ankr", apiKeys, chain)
  /\ (op = "getRpcUrl_p2" /\ endpoint = undefined
        /\ YieldsUrl(ProviderUrl_p2("ankr", apiKeys, chain)))
       => result = ProviderUrl_p2("ankr", apiKeys, chain)

\* C4, amended: without an endpoint Ankr has the highest priority in
\* part_002; in part_001 QuickNode ranks above it: the Ankr URL is returned
\* when the QuickNode builder yields absent, the QuickNode URL otherwise.
C4_AnkrHighest ==
  /\ (op = "getRpcUrl_p2" /\ endpoint = undefined
        /\ YieldsUrl(ProviderUrl_p2("ankr", apiKeys, chain)))
       => result = ProviderUrl_p2("ankr", apiKeys, chain)
  /\ (op = "getRpcUrl" /\ endpoint = undefined
        /\ YieldsUrl(ProviderUrl("ankr", apiKeys, chain)))
       => result = IF YieldsUrl(ProviderUrl("quicknode", apiKeys, chain))
                     THEN ProviderUrl("quicknode", apiKeys, chain)
                     ELSE ProviderUrl("ankr", apiKeys, chain)

\* The test's case: all three keys of part_002 given, Ankr answers
C4_Witness ==
  /\ op = "getRpcUrl_p2" /\ endpoint = undefined /\ chain = "ETH_MAINNET"
  /\ apiKeys.alchemyApiKey = Str("k") /\ apiKeys.metamaskApiKey = Str("k")
  /\ apiKeys.ankrApiKey = Str("s:t")
  /\ result = Return(Str("https://rpc.ankr.com/eth/s:t"))

\* C5: when the preferred provider's builder yields a URL with its own key,
\* getRpcUrl (either variant) returns exactly that URL, also when providers
\* ranked higher would yield one.
C5_PreferredWins ==
  /\ \A p \in Providers :
       (op = "getRpcUrl" /\ endpoint = Str(p) /\ YieldsUrl(ProviderUrl(p, apiKeys, chain)))
         => result = ProviderUrl(p, apiKeys, chain)
  /\ \A p \in Providers_p2 :
       (op = "getRpcUrl_p2" /\ endpoint = Str(p) /\ YieldsUrl(ProviderUrl_p2(p, apiKeys, chain)))
         => result = ProviderUrl_p2(p, apiKeys, chain)

\* Alchemy (last in the order) preferred while QuickNode and Ankr could answer
C5_Witness ==
  /\ op = "getRpcUrl" /\ endpoint = Str("alchemy") /\ chain = "ETH_MAINNET"
  /\ apiKeys.quicknodeApiKey = Str("s:t") /\ apiKeys.ankrApiKey = Str("k")
  /\ apiKeys.alchemyApiKey = Str("k")
  /\ result = Return(Str("https://eth-mainnet.g.alchemy.com/v2/k"))

\* C6: in part_001 a string endpoint is matched case-insensitively: every
\* letter-case spelling of a provider name gives the result of the enum value,
\* and a string naming no provider gives the result of no preferred provider.
C6_CaseInsensitiveEndpoint ==
  op = "getRpcUrl" =>
    /\ \A p \in Providers :
         (IsString(endpoint) /\ endpoint.str \in CaseVariants(p))
           => result = getRpcUrl(apiKeys, chain, Str(p))
    /\ (IsString(endpoint) /\ endpoint.str \in UnknownEndpointNames)
         => result = getRpcUrl(apiKeys, chain, undefined)

\* "aNkR" selects Ankr although QuickNode could answer
C6_Witness ==
  /\ op = "getRpcUrl" /\ endpoint = Str("aNkR") /\ chain = "ETH_MAINNET"
  /\ apiKeys.quicknodeApiKey = Str("s:t") /\ apiKeys.ankrApiKey = Str("k")
  /\ result = Return(Str("https://rpc.ankr.com/eth/k"))

\* The operations that build one provider's URL from one API key
Builders == {"getAlchemyRpcUrl", "getAnkrRpcUrl", "getMetamaskRpcUrl", "getQuickNodeRpcUrl"}

Builders_p2 == {"getAlchemyRpcUrl_p2", "getAnkrRpcUrl_p2", "getMetamaskRpcUrl_p2"}

\* An empty or absent API key
EmptyCredentials == {undefined, null, Str("")}

\* A non-empty API key string
NonEmptyKey(v) == IsString(v) /\ v.str # ""

\* The arguments a builder's declared parameter type admits: part_001 takes
\* Optional<string> (Alchemy also a BlockchainApis object), getExplorerApiUrl
\* a string or a BlockchainApis object
DeclaredCredentials(name) ==
  CASE name = "getAlchemyRpcUrl" -> {undefined, null} \cup StringCredentials \cup BlockchainApisObjects
    [] name \in {"getAnkrRpcUrl", "getMetamaskRpcUrl", "getQuickNodeRpcUrl"} ->
         {undefined, null} \cup StringCredentials
    [] name = "getExplorerApiUrl" ->
         StringCredentials \cup BlockchainApisObjects \cup DocumentedApisObjects
    [] OTHER -> {undefined}

\* The network slug of the chain record that builder `name` reads
SlugOf(name, info) ==
  CASE name \in {"getAlchemyRpcUrl", "getAlchemyRpcUrl_p2"} -> info.alchemyNetwork
    [] name \in {"getAnkrRpcUrl", "getAnkrRpcUrl_p2"} -> info.ankrNetwork
    [] name \in {"getMetamaskRpcUrl", "getMetamaskRpcUrl_p2"} -> info.metamaskNetwork
    [] name = "getQuickNodeRpcUrl" -> info.quicknodeNetwork

Recognized(c) == c \in DOMAIN CHAIN_INFO_MAP

C8_NoSlugAbsent ==
  (/\ op \in Builders \cup Builders_p2
   /\ Recognized(chain)
   /\ NonEmptyKey(credential)
   /\ SlugOf(op, CHAIN_INFO_MAP[chain]) = undefined) => Absent(result)

\* The test's case: Metamask has no network for Base
C8_Witness ==
  /\ op = "getMetamaskRpcUrl" /\ chain = "BASE_MAINNET" /\ credential = Str("s")
  /\ CHAIN_INFO_MAP[chain].metamaskNetwork = undefined
  /\ Absent(result)

C10_UrlTemplates ==
  (/\ Recognized(chain)
   /\ NonEmptyKey(credential)) =>
    LET info == CHAIN_INFO_MAP[chain]
        key == credential.str
    IN  /\ (op \in {"getAlchemyRpcUrl", "getAlchemyRpcUrl_p2"} /\ IsString(info.alchemyNetwork))
             => result = Return(Str("https://" \o info.alchemyNetwork.str \o ".g.alchemy.com/v2/" \o key))
        /\ (op \in {"getAnkrRpcUrl", "getAnkrRpcUrl_p2"} /\ IsString(info.ankrNetwork))
             => result = Return(Str("https://rpc.ankr.com/" \o info.ankrNetwork.str \o "/" \o key))
        /\ (op \in {"getMetamaskRpcUrl", "getMetamaskRpcUrl_p2"} /\ IsString(info.metamaskNetwork))
             => result = Return(Str("https://" \o info.metamaskNetwork.str \o ".infura.io/v3/" \o key))

\* Polygon through Metamask in part_002, the key carrying a ':' verbatim
C10_Witness ==
  /\ op = "getMetamaskRpcUrl_p2" /\ chain = "POLYGON_MAINNET" /\ credential = Str("s:t")
  /\ result = Return(Str("https://polygon-mainnet.infura.io/v3/s:t"))

-----------------------------------------------------------------------------
\* The positions of the colons of a key string
ColonsOf(s) == {i \in 1..Len(s) : SubSeq(s, i, i) = ":"}

\* The key is "subdomain:token": one colon, with something on either side
WellFormedQuickNodeKey(s) ==
  /\ Cardinality(ColonsOf(s)) = 1
  /\ \A i \in ColonsOf(s) : 1 < i /\ i < Len(s)

\* C11: getQuickNodeRpcUrl returns a URL only for a key with exactly one colon
\* between two non-empty parts subdomain and token, on a chain with a QuickNode
\* slug, and the URL is then https://{subdomain}.{slug}.quiknode.pro/{token}/;
\* a key with no colon, more than one colon or an empty part yields absent.
C11_QuickNodeKeyForm ==
  (op = "getQuickNodeRpcUrl" /\ IsString(credential)) =>
    LET s == credential.str
        info == getChainInfo(chain)
    IN  IF WellFormedQuickNodeKey(s) /\ Recognized(chain) /\ Truthy(info.quicknodeNetwork)
          THEN LET i == CHOOSE j \in ColonsOf(s) : TRUE
               IN  result = Return(Str("https://" \o SubSeq(s, 1, i - 1) \o "."
                                       \o info.quicknodeNetwork.str \o ".quiknode.pro/"
                                       \o SubSeq(s, i + 1, Len(s)) \o "/"))
          ELSE Absent(result)

\* A key with two colons around non-empty parts was refused
C11_Witness ==
  /\ op = "getQuickNodeRpcUrl"
  /\ credential = Str("s:t:s")
  /\ chain = "ETH_MAINNET"
  /\ Absent(result)

-----------------------------------------------------------------------------
\* The provider a builder of part_001 serves
ProviderOf(name) ==
  CASE name = "getQuickNodeRpcUrl" -> "quicknode"
    [] name = "getAnkrRpcUrl" -> "ankr"
    [] name = "getMetamaskRpcUrl" -> "metamask"
    [] name = "getAlchemyRpcUrl" -> "alchemy"

\* C12 as stated: each of the four builders, handed a BlockchainApis bundle in
\* place of the key string, gives what it gives for the string form called with
\* its own field of the bundle.
C12_BundleForm_Original ==
  (op \in Builders /\ credential \in BlockchainApisObjects) =>
    result = ProviderUrl(ProviderOf(op), credential.apiKeys, chain)

\* C12: the Alchemy builder, handed a BlockchainApis bundle in place of the key
\* string, gives what it gives for the string form called with the bundle's
\* apiKeys.alchemyApiKey: in part_001 for every bundle, in part_002 for every
\* bundle whose alchemyApiKey is a string.
C12_BundleForm ==
  /\ (op = "getAlchemyRpcUrl" /\ credential \in BlockchainApisObjects) =>
        result = getAlchemyRpcUrl(credential.apiKeys.alchemyApiKey, chain)
  /\ (op = "getAlchemyRpcUrl_p2" /\ credential \in BlockchainApisObjects
        /\ IsString(credential.apiKeys.alchemyApiKey)) =>
        result = getAlchemyRpcUrl_p2(credential.apiKeys.alchemyApiKey, chain)

\* The Alchemy builder built a URL from the key inside a bundle
C12_Witness ==
  /\ op = "getAlchemyRpcUrl"
  /\ credential \in BlockchainApisObjects
  /\ credential.apiKeys.alchemyApiKey = Str("k")
  /\ chain = "ETH_MAINNET"
  /\ result = Return(Str("https://eth-mainnet.g.alchemy.com/v2/k"))

-----------------------------------------------------------------------------
\* C13: getAlchemyRpcUrl, called with the bundle its documentation shows (an
\* object with alchemyApiKey and etherscanApiKey at the top level), returns the
\* Alchemy URL of that alchemyApiKey for a chain with an Alchemy slug.
C13_DocumentedBundle ==
  (op \in {"getAlchemyRpcUrl", "getAlchemyRpcUrl_p2"} /\ credential \in DocumentedApisObjects
     /\ Recognized(chain) /\ Truthy(CHAIN_INFO_MAP[chain].alchemyNetwork)) =>
    result = Return(Str("https://" \o CHAIN_INFO_MAP[chain].alchemyNetwork.str
                        \o ".g.alchemy.com/v2/" \o credential.alchemyApiKey.str))

-----------------------------------------------------------------------------
\* The Etherscan key of a call of getExplorerApiUrl: the string itself, or the
\* etherscanApiKey of the bundle
EtherscanKeyOf(cred) == IF IsString(cred) THEN cred ELSE cred.etherscanApiKey

\* C14: in part_001, getExplorerApiUrl is absent when the key (the string, or
\* the bundle's etherscanApiKey) is empty, the chain is unrecognized, the
\* chain's type is SOLANA (whatever its explorerDomain), or explorerDomain is
\* absent; in every other case it is https://{explorerDomain}/api?apikey={key}.
C14_ExplorerApiUrl ==
  (op = "getExplorerApiUrl" /\ (IsString(credential) \/ credential.type = "object")) =>
    LET key == EtherscanKeyOf(credential)
    IN  IF \/ key = Str("")
           \/ ~Recognized(chain)
           \/ CHAIN_INFO_MAP[chain].chainType = "SOLANA"
           \/ CHAIN_INFO_MAP[chain].explorerDomain = undefined
          THEN Absent(result)
          ELSE result = Return(Str("https://" \o CHAIN_INFO_MAP[chain].explorerDomain.str
                                   \o "/api?apikey=" \o key.str))

\* A Solana chain whose record carries an explorerDomain got no explorer API
\* URL for the key of a bundle
C14_Witness ==
  /\ op = "getExplorerApiUrl"
  /\ credential \in BlockchainApisObjects
  /\ credential.etherscanApiKey = Str("e")
  /\ Recognized(chain)
  /\ CHAIN_INFO_MAP[chain].chainType = "SOLANA"
  /\ CHAIN_INFO_MAP[chain].explorerDomain # undefined
  /\ Absent(result)

-----------------------------------------------------------------------------
\* C15: in both variants, getBlockExplorerUrl of a recognized chain is
\* https://{explorerBrowserDomain} when the record has an explorerBrowserDomain,
\* for EVM and Solana chains alike, and absent when it has none.
C15_BlockExplorerUrl ==
  (op \in {"getBlockExplorerUrl", "getBlockExplorerUrl_p2"} /\ Recognized(chain)) =>
    IF CHAIN_INFO_MAP[chain].explorerBrowserDomain # undefined
      THEN result = Return(Str("https://" \o CHAIN_INFO_MAP[chain].explorerBrowserDomain.str))
      ELSE Absent(result)

\* part_002 gave the explorer of a Solana chain
C15_Witness ==
  /\ op = "getBlockExplorerUrl_p2"
  /\ chain = "SOLANA_MAINNET"
  /\ result = Return(Str("https://explorer.solana.com"))

-----------------------------------------------------------------------------
\* The record is one getVisibleChains(chainType, includesTestNet) is to list:
\* an omitted chainType filters nothing, an omitted includesTestNet is true
Visible(info, chainType, includesTestNet) ==
  /\ (chainType = undefined \/ chainType = Str(info.chainType))
  /\ (includesTestNet \in {undefined, Bool(TRUE)} \/ info.isTestNet = FALSE)
  /\ info.mailerAddress # undefined

\* The elements of seq at the positions in `positions`, in increasing order
Pick(seq, positions) ==
  [k \in 1..Cardinality(positions) |->
     seq[CHOOSE i \in positions : Cardinality({j \in positions : j < i}) = k - 1]]

\* C16: in both variants, getVisibleChains returns exactly the registry
\* records that pass the chain-type filter (none when chainType is omitted),
\* are not test nets unless includesTestNet is true or omitted, and have a
\* mailerAddress, in the iteration order of the registry.
C16_VisibleChains ==
  (op \in {"getVisibleChains", "getVisibleChains_p2"}) =>
    LET all == ObjectValues(CHAIN_INFO_MAP)
        listed == {i \in 1..Len(all) : Visible(all[i], args.chainType, args.includesTestNet)}
    IN  result = Return(Arr(Pick(all, listed)))

\* With both arguments omitted, the chain without a mailerAddress was left out
\* and the test net was listed, in the order of the table
C16_Witness ==
  /\ op = "getVisibleChains"
  /\ args.chainType = undefined
  /\ args.includesTestNet = undefined
  /\ result = Return(Arr(<<Registry.ETH_MAINNET, Registry.BASE_MAINNET,
                            Registry.ETH_SEPOLIA, Registry.SOLANA_MAINNET>>))

\* C17: for every chain-type filter f (none included), getVisibleChains(f,
\* false) is the elements of getVisibleChains(f, true) that are no test nets,
\* in the same order.
C17_MainnetSubsequence ==
  (op = "getVisibleChains" /\ args.includesTestNet = Bool(FALSE)) =>
    result = Return(Arr(SelectSeq(getVisibleChains(args.chainType, Bool(TRUE)).value.items,
                                  LAMBDA info : ~info.isTestNet)))

\* Without test nets the EVM list is shorter than with them, and not empty
C17_Witness ==
  /\ op = "getVisibleChains"
  /\ args.chainType = Str("EVM")
  /\ args.includesTestNet = Bool(FALSE)
  /\ result = Return(Arr(<<Registry.ETH_MAINNET, Registry.BASE_MAINNET>>))
  /\ Len(getVisibleChains(Str("EVM"), Bool(TRUE)).value.items) = 3

-----------------------------------------------------------------------------
\* C18: in part_001, for every recognized chain c,
\* getChainInfoById(getChainId(c)) equals getChainInfo(c).
C18_IdRoundTrip ==
  (op = "getChainId" /\ Recognized(chain)) =>
    /\ ~result.threw
    /\ getChainInfoById(result.value) = Return(getChainInfo(chain))

\* The negative id of a Solana chain led back to its record
C18_Witness ==
  /\ op = "getChainId"
  /\ chain = "SOLANA_MAINNET"
  /\ result = Return(Num(-101))
  /\ getChainInfoById(Num(-101)) = Return(Registry.SOLANA_MAINNET)

\* C19: getChainInfoById(n) returns the first record, in the iteration order
\* of the registry, whose chainId is n, and undefined when no record has
\* chainId n; it never raises.
C19_FirstById ==
  (op = "getChainInfoById") =>
    LET all == ObjectValues(CHAIN_INFO_MAP)
        n == args.chainId.num
    IN  /\ ~result.threw
        /\ \A i \in 1..Len(all) :
             (all[i].chainId = n /\ \A j \in 1..(i - 1) : all[j].chainId # n)
               => result.value = all[i]
        /\ (\A i \in 1..Len(all) : all[i].chainId # n) => result.value = undefined

\* The id of a Solana chain found its record, which is not the first of the table
C19_Witness ==
  /\ op = "getChainInfoById"
  /\ args.chainId = Num(-101)
  /\ result = Return(Registry.SOLANA_MAINNET)

\* C20: in both variants, isEvmChain and isSolanaChain return false, and do
\* not raise, for an unrecognized chain; for a recognized chain isEvmChain is
\* true iff the record's chainType is EVM and isSolanaChain iff it is SOLANA.
C20_ChainTypePredicates ==
  /\ (op \in {"isEvmChain", "isEvmChain_p2"}) =>
        result = Return(Bool(Recognized(chain) /\ CHAIN_INFO_MAP[chain].chainType = "EVM"))
  /\ (op \in {"isSolanaChain", "isSolanaChain_p2"}) =>
        result = Return(Bool(Recognized(chain) /\ CHAIN_INFO_MAP[chain].chainType = "SOLANA"))

\* part_002, which throws for unknown chains elsewhere, answered false here
C20_Witness ==
  /\ op = "isSolanaChain_p2"
  /\ chain = UnknownChain
  /\ result = Return(Bool(FALSE))

-----------------------------------------------------------------------------
\* The accessors of part_001 that answer from the record of a chain
Accessors == {"getChainInfo", "getChainId", "getChainType", "getUserFriendlyName",
              "getUSDCAddress"}

\* C21: in part_001, getChainInfo, getChainId, getChainType,
\* getUserFriendlyName and getUSDCAddress return undefined, and none raises,
\* for an unrecognized chain; for a recognized chain getChainInfo returns the
\* record and each of the others returns its field of that record.
C21_AbsentPolicy ==
  (op \in Accessors) =>
    IF ~Recognized(chain) THEN Absent(result)
    ELSE LET info == CHAIN_INFO_MAP[chain]
         IN  result = Return(CASE op = "getChainInfo" -> info
                               [] op = "getChainId" -> Num(info.chainId)
                               [] op = "getChainType" -> Str(info.chainType)
                               [] op = "getUserFriendlyName" -> Str(info.name)
                               [] op = "getUSDCAddress" -> info.usdcAddress)

\* getUSDCAddress answered undefined for a chain outside the table
C21_Witness ==
  /\ op = "getUSDCAddress"
  /\ chain = UnknownChain
  /\ Absent(result)

-----------------------------------------------------------------------------
\* The operations of part_002 that look the chain up before anything else
FailFastOperations ==
  {"getChainInfo_p2", "getChainType_p2", "getChainId_p2", "getUserFriendlyName_p2",
   "getUSDCAddress_p2", "deriveChainInfo_p2"}

\* C22: in part_002, getChainInfo, getChainType, getChainId,
\* getUserFriendlyName, getUSDCAddress and deriveChainInfo raise the error
\* 'Unknown chain: <chain>' for an unrecognized chain and return nothing for
\* it, whatever keys the config of deriveChainInfo carries.
C22_FailFast ==
  (op \in FailFastOperations /\ ~Recognized(chain)) =>
    result = Throw("Unknown chain: " \o chain)

\* deriveChainInfo of part_002 raised for an unknown chain though the config
\* had no key at all
C22_Witness ==
  /\ op = "deriveChainInfo_p2"
  /\ chain = UnknownChain
  /\ args.config.alchemyApiKey = undefined
  /\ args.config.etherscanApiKey = undefined
  /\ result = Throw("Unknown chain: UNKNOWN")

-----------------------------------------------------------------------------
\* The value an operation returned; the operations compared here do not raise
\* where they are compared
ValueOf(out) == out.value

\* C23: in both variants, the record deriveChainInfo(config) returns has
\* config.chain as its chain, the results of getChainId, getChainType,
\* getUserFriendlyName, getExplorerApiUrl(config.etherscanApiKey),
\* getBlockExplorerUrl and getUSDCAddress as the fields of those names, and
\* getAlchemyRpcUrl(config.alchemyApiKey, config.chain) as its rpcUrl: the
\* Alchemy URL of the key when there is one, absent when the key is empty,
\* whatever other provider's key the config carries.  It returns for every
\* config whose keys are strings (in part_002: on a recognized chain).
C23_DerivedFields ==
  /\ (op = "deriveChainInfo" /\ ~result.threw) =>
        LET config == args.config
            c == config.chain
        IN  /\ result.value =
                  [type |-> "object", chain |-> c,
                   chainId |-> ValueOf(getChainId(c)),
                   chainType |-> ValueOf(getChainType(c)),
                   name |-> ValueOf(getUserFriendlyName(c)),
                   rpcUrl |-> ValueOf(getAlchemyRpcUrl(config.alchemyApiKey, c)),
                   explorerApiUrl |-> ValueOf(getExplorerApiUrl(config.etherscanApiKey, c)),
                   explorerUrl |-> ValueOf(getBlockExplorerUrl(c)),
                   usdcAddress |-> ValueOf(getUSDCAddress(c))]
            /\ ~Truthy(config.alchemyApiKey) => result.value.rpcUrl = undefined
            /\ (Truthy(config.alchemyApiKey) /\ Recognized(c)
                  /\ CHAIN_INFO_MAP[c].alchemyNetwork # undefined) =>
                  result.value.rpcUrl =
                    Str("https://" \o CHAIN_INFO_MAP[c].alchemyNetwork.str
                        \o ".g.alchemy.com/v2/" \o config.alchemyApiKey.str)
  /\ (op = "deriveChainInfo_p2" /\ ~result.threw) =>
        LET config == args.config
            c == config.chain
        IN  /\ result.value =
                  [type |-> "object", chain |-> c,
                   chainId |-> ValueOf(getChainId_p2(c)),
                   chainType |-> ValueOf(getChainType_p2(c)),
                   name |-> ValueOf(getUserFriendlyName_p2(c)),
                   rpcUrl |-> ValueOf(getAlchemyRpcUrl_p2(config.alchemyApiKey, c)),
                   explorerApiUrl |-> ValueOf(getExplorerApiUrl_p2(config.etherscanApiKey, c)),
                   explorerUrl |-> ValueOf(getBlockExplorerUrl_p2(c)),
                   usdcAddress |-> ValueOf(getUSDCAddress_p2(c))]
            /\ ~Truthy(config.alchemyApiKey) => result.value.rpcUrl = undefined
  /\ (op = "deriveChainInfo" /\ IsString(args.config.etherscanApiKey)
        /\ args.config.alchemyApiKey \in {undefined, Str(""), Str("k")}) => ~result.threw
  /\ (op = "deriveChainInfo_p2" /\ IsString(args.config.etherscanApiKey)
        /\ IsString(args.config.alchemyApiKey) /\ Recognized(chain)) => ~result.threw

\* With no Alchemy key and an Ankr key in the config, on a chain Ankr serves,
\* the record has no rpcUrl and has its explorer API URL
C23_Witness ==
  /\ op = "deriveChainInfo"
  /\ chain = "ETH_MAINNET"
  /\ args.config.alchemyApiKey = Str("")
  /\ args.config.ankrApiKey = Str("k2")
  /\ ~result.threw
  /\ result.value.rpcUrl = undefined
  /\ result.value.explorerApiUrl = Str("https://api.etherscan.io/api?apikey=e")
  /\ result.value.chainId = Num(1)

\* C24: in part_001, deriveChainInfo never raises: for an unrecognized chain,
\* and for a config whose alchemyApiKey or etherscanApiKey is absent or
\* empty, it returns a record whose chain is the chain of the config and in
\* which every field that cannot be derived is undefined.
C24_DeriveNeverRaises ==
  (op = "deriveChainInfo") =>
    /\ ~result.threw
    /\ result.value.chain = args.config.chain
    /\ ~Recognized(chain) =>
          \A f \in {"chainId", "chainType", "name", "rpcUrl", "explorerApiUrl",
                     "explorerUrl", "usdcAddress"} : result.value[f] = undefined
    /\ ~Truthy(args.config.alchemyApiKey) => result.value.rpcUrl = undefined
    /\ ~Truthy(args.config.etherscanApiKey) => result.value.explorerApiUrl = undefined

-----------------------------------------------------------------------------
C28_OwnKeyOnly ==
  /\ (op = "getRpcUrl" /\ YieldsUrl(result)) =>
        \E p \in Providers : result = ProviderUrl(p, apiKeys, chain)
  /\ (op = "getRpcUrl_p2" /\ YieldsUrl(result)) =>
        \E p \in Providers_p2 : result = ProviderUrl_p2(p, apiKeys, chain)

\* Ankr was preferred and its URL carries the Ankr key, not the different
\* Alchemy key
C28_Witness ==
  /\ op = "getRpcUrl"
  /\ endpoint = RpcEndpoint.Ankr
  /\ chain = "ETH_MAINNET"
  /\ apiKeys.ankrApiKey = Str("s:t")
  /\ apiKeys.alchemyApiKey = Str("k")
  /\ result = Return(Str("https://rpc.ankr.com/eth/s:t"))

\* C29: in both variants, isEvmChain and isSolanaChain are never both true of
\* a chain; of a recognized chain exactly one is true, isEvmChain iff
\* getChainType is EVM and isSolanaChain iff getChainType is SOLANA.
C29_OneChainType ==
  /\ (op \in {"isEvmChain", "isSolanaChain"}) =>
        LET evm == isEvmChain(chain).value.val
            solana == isSolanaChain(chain).value.val
        IN  /\ result = IF op = "isEvmChain" THEN Return(Bool(evm)) ELSE Return(Bool(solana))
            /\ ~(evm /\ solana)
            /\ Recognized(chain) =>
                  /\ evm # solana
                  /\ evm <=> getChainType(chain) = Return(Str("EVM"))
                  /\ solana <=> getChainType(chain) = Return(Str("SOLANA"))
  /\ (op \in {"isEvmChain_p2", "isSolanaChain_p2"}) =>
        LET evm == isEvmChain_p2(chain).value.val
            solana == isSolanaChain_p2(chain).value.val
        IN  /\ result = IF op = "isEvmChain_p2" THEN Return(Bool(evm)) ELSE Return(Bool(solana))
            /\ ~(evm /\ solana)
            /\ Recognized(chain) =>
                  /\ evm # solana
                  /\ evm <=> getChainType_p2(chain) = Return(Str("EVM"))
                  /\ solana <=> getChainType_p2(chain) = Return(Str("SOLANA"))

\* isEvmChain said false of a Solana chain, of which isSolanaChain says true
C29_Witness ==
  /\ op = "isEvmChain"
  /\ chain = "SOLANA_MAINNET"
  /\ result = Return(Bool(FALSE))
  /\ isSolanaChain(chain) = Return(Bool(TRUE))

\* The key a builder of part_002 uses of its credential: the string, or the
\* apiKeys.alchemyApiKey of a bundle handed to the Alchemy builder
BuilderKey_p2(cred) == IF IsString(cred) THEN cred ELSE cred.apiKeys.alchemyApiKey

\* The key of apiKeys an endpoint of part_002 stands for
EndpointKey_p2(e, keys) ==
  CASE e = RpcEndpoint_p2.Alchemy -> keys.alchemyApiKey
    [] e = RpcEndpoint_p2.Ankr -> keys.ankrApiKey
    [] e = RpcEndpoint_p2.Metamask -> keys.metamaskApiKey

UnknownChainError(c) == Throw("Unknown chain: " \o c)

\* C30: in part_002, for an unrecognized chain, a URL builder raises 'Unknown
\* chain' iff its key is non-empty and returns undefined for an empty one;
\* getRpcUrl without an endpoint raises iff one of the Ankr, Metamask and
\* Alchemy keys is non-empty and returns undefined when all are empty; with
\* an endpoint it raises iff the key of that endpoint is non-empty.
C30_UnknownChainByKey ==
  /\ (/\ op \in Builders_p2
      /\ ~Recognized(chain)
      /\ \/ IsString(credential)
         \/ (op = "getAlchemyRpcUrl_p2" /\ credential \in BlockchainApisObjects)) =>
        result = IF Truthy(BuilderKey_p2(credential)) THEN UnknownChainError(chain)
                 ELSE Return(undefined)
  /\ (op = "getRpcUrl_p2" /\ ~Recognized(chain) /\ endpoint = undefined) =>
        result = IF \E p \in Providers_p2 : Truthy(KeyOf(p, apiKeys))
                   THEN UnknownChainError(chain)
                   ELSE Return(undefined)
  /\ (op = "getRpcUrl_p2" /\ ~Recognized(chain)
        /\ endpoint \in {RpcEndpoint_p2.Alchemy, RpcEndpoint_p2.Ankr, RpcEndpoint_p2.Metamask}) =>
        result = IF Truthy(EndpointKey_p2(endpoint, apiKeys)) THEN UnknownChainError(chain)
                 ELSE Return(undefined)

\* For an unknown chain and the Ankr endpoint without an Ankr key, undefined
\* was returned though the Alchemy key would have raised
C30_Witness ==
  /\ op = "getRpcUrl_p2"
  /\ chain = UnknownChain
  /\ endpoint = RpcEndpoint_p2.Ankr
  /\ apiKeys.ankrApiKey = undefined
  /\ apiKeys.alchemyApiKey = Str("k")
  /\ Absent(result)

-----------------------------------------------------------------------------
\* C25: no operation of RpcHelpers modifies the chain registry: in every
\* step of every sequence of calls, of either variant and in any order,
\* CHAIN_INFO_MAP and each of its records stay as they were.
C25_RegistryUnchanged == [][CHAIN_INFO_MAP' = CHAIN_INFO_MAP]_vars

\* getVisibleChains has filtered the values of the table and returned some of
\* them, and the table still holds every record, test networks included
C25_Witness ==
  /\ op = "getVisibleChains"
  /\ args.includesTestNet = Bool(FALSE)
  /\ Len(result.value.items) > 0
  /\ CHAIN_INFO_MAP = Registry
  /\ \E k \in DOMAIN CHAIN_INFO_MAP : CHAIN_INFO_MAP[k].isTestNet

-----------------------------------------------------------------------------
=============================================================================
